---- MODULE Spec2Model ----
(***************************************************************************)
(* Model of the pointer-interaction session of interact.js:                *)
(*   src/src/Interaction.js  - class Interaction (one session)             *)
(*   src/src/interactions.js - the dispatcher that feeds sessions          *)
(*                                                                         *)
(* A session is a record; every method of the class is an operator from a  *)
(* machine (the session, the notifications fired so far by the running     *)
(* handler, the listener registered for this handler) to a machine.  The   *)
(* signal bus is synchronous, so a handler, with everything its listeners  *)
(* call, is one atomic step.                                               *)
(*                                                                         *)
(* Abstractions: time stamps of coordinate snapshots are one token (every  *)
(* snapshot is taken "now" and no modelled decision reads the value), so   *)
(* velocities and speed of pointerDelta are left out; a raw event is its   *)
(* type; an InteractEvent is the tuple of arguments it was built from.     *)
(***************************************************************************)
EXTENDS Integers, Sequences, FiniteSets, TLC

VARIABLES
  interaction,      \* the Interaction object (all of its fields)
  stopSinceMoved,   \* history: stop() has run since pointerWasMoved last
                    \* became true (FALSE while pointerWasMoved is false)
  scope,            \* the dispatcher's scope: interactions, prevTouchTime
  browser,          \* the platform: supportsTouch, supportsPointerEvent
  clock             \* new Date().getTime()

vars == <<interaction, stopSinceMoved, scope, browser, clock>>

(***************************************************************************)
(* Bounds of the model.                                                    *)
(***************************************************************************)
MaxPointers == 2  \* touch identifiers are 1..MaxPointers, so a touch
                  \* session holds at most MaxPointers contacts
MaxNest == 1      \* listener reactions that may nest inside one handler
MaxSessions == 1  \* sessions the dispatcher is let to create
MaxTicks == 2     \* steps of the clock

(***************************************************************************)
(* JavaScript values.                                                      *)
(***************************************************************************)
NULL == "null"
UNDEF == "undefined"   \* also the value read from a hole of an array
NOW == "now"           \* a time stamp

\* Interaction.pointerMoveTolerance = 1
pointerMoveTolerance == 1

\* arr[i] = v on a JavaScript array (0-based i): writing past the end
\* leaves holes between the old end and i.
ArrSet(arr, i, v) ==
  IF i < Len(arr)
  THEN [arr EXCEPT ![i + 1] = v]
  ELSE [k \in 1..(i + 1) |->
          IF k <= Len(arr) THEN arr[k] ELSE IF k = i + 1 THEN v ELSE UNDEF]

\* arr.splice(i, 1): nothing is removed when i is past the end.
Splice(arr, i) ==
  IF i < Len(arr)
  THEN [k \in 1..(Len(arr) - 1) |-> IF k <= i THEN arr[k] ELSE arr[k + 1]]
  ELSE arr

\* arr.indexOf(v): the first 0-based index holding v, or -1.
IndexOf(arr, v) ==
  IF \E k \in 1..Len(arr) : arr[k] = v
  THEN (CHOOSE k \in 1..Len(arr) :
          arr[k] = v /\ \A j \in 1..(k - 1) : arr[j] # v) - 1
  ELSE -1

(***************************************************************************)
(* Inputs: pointers, raw events, actions, targets.                         *)
(***************************************************************************)
\* Page and client position of a pointer: at the origin, one unit away (not
\* beyond the tolerance), far away, and at the origin of the client area of
\* a scrolled page.
Origin == [px |-> 0, py |-> 0, cx |-> 0, cy |-> 0]
Near == [px |-> 1, py |-> 0, cx |-> 1, cy |-> 0]
Far == [px |-> 5, py |-> 5, cx |-> 5, cy |-> 5]
Scrolled == [px |-> 0, py |-> 5, cx |-> 0, cy |-> 0]

MousePositions == {Origin, Near, Far}

PenPositions == {Origin, Scrolled}

Pointer(id, pos) ==
  [id |-> id, px |-> pos.px, py |-> pos.py, cx |-> pos.cx, cy |-> pos.cy]

\* The pointers events carry to a session of each pointer type.  A mouse has
\* one identifier and is seen at the origin, within the tolerance of it and
\* beyond; a pen may carry several identifiers and is seen at the origin and
\* where the page, not the client, coordinates have left it; touch contacts
\* differ in their identifier and rest at one position.
PenIds == {1, 2}

PointersOf(pointerType) ==
  CASE pointerType = "touch" ->
         { Pointer(id, Origin) : id \in 1..MaxPointers }
    [] pointerType = "pen" ->
         { Pointer(id, pos) : id \in PenIds, pos \in PenPositions }
    [] OTHER ->
         { Pointer(1, pos) : pos \in MousePositions }

\* pointerUp and removePointer read only the identifier of their pointer.
IdsOf(pointerType) == { p.id : p \in PointersOf(pointerType) }

UpPointersOf(pointerType) == { Pointer(id, Origin) : id \in IdsOf(pointerType) }

DownTypes == {"down"}
MoveTypes == {"move"}
UpTypes == {"up", "cancel"}

Element1 == "element1"
Target1 == "interactable1"

Drag == [name |-> "drag", axis |-> "xy", edges |-> NULL]
Gesture == [name |-> "gesture", axis |-> NULL, edges |-> NULL]
Actions == {Drag, Gesture}

(***************************************************************************)
(* utils (not part of the two source files): coordinates.  A snapshot is   *)
(* kept as numerators over the common denominator n, because the current   *)
(* coordinate of several pointers is their average.                        *)
(***************************************************************************)
Divides(d, c) ==
  /\ c.n % d = 0
  /\ c.px % d = 0 /\ c.py % d = 0 /\ c.cx % d = 0 /\ c.cy % d = 0

\* The fraction in lowest terms, so that equal coordinates are equal records.
Norm(c) ==
  LET d == CHOOSE d \in 1..c.n :
             Divides(d, c) /\ \A e \in 1..c.n : Divides(e, c) => e <= d
  IN [px |-> c.px \div d, py |-> c.py \div d,
      cx |-> c.cx \div d, cy |-> c.cy \div d, n |-> c.n \div d]

ZeroCoords == [px |-> 0, py |-> 0, cx |-> 0, cy |-> 0, n |-> 1]

RECURSIVE SumField(_, _, _)
SumField(pointers, k, f) ==
  IF k = 0 THEN 0 ELSE pointers[k][f] + SumField(pointers, k - 1, f)

\* utils.pointer.pointerAverage
pointerAverage(pointers) ==
  LET k == Len(pointers)
  IN Norm([px |-> SumField(pointers, k, "px"), py |-> SumField(pointers, k, "py"),
           cx |-> SumField(pointers, k, "cx"), cy |-> SumField(pointers, k, "cy"),
           n |-> k])

\* utils.pointer.setCoords(targetObj, pointers): the value written to targetObj
setCoords(pointers) ==
  IF Len(pointers) > 1
  THEN pointerAverage(pointers)
  ELSE [px |-> pointers[1].px, py |-> pointers[1].py,
        cx |-> pointers[1].cx, cy |-> pointers[1].cy, n |-> 1]

\* utils.pointer.copyCoords(dest, src): the value written to dest
copyCoords(src) == src

\* utils.pointer.setCoordDeltas(targetObj, prev, cur): cur - prev
setCoordDeltas(prev, cur) ==
  Norm([px |-> cur.px * prev.n - prev.px * cur.n,
        py |-> cur.py * prev.n - prev.py * cur.n,
        cx |-> cur.cx * prev.n - prev.cx * cur.n,
        cy |-> cur.cy * prev.n - prev.cy * cur.n,
        n |-> cur.n * prev.n])

\* utils.hypot(dx, dy) > tolerance, for dx = cur.cx - start.cx and
\* dy = cur.cy - start.cy in client space
HypotExceeds(cur, start, tolerance) ==
  LET dx == cur.cx * start.n - start.cx * cur.n
      dy == cur.cy * start.n - start.cy * cur.n
      d == cur.n * start.n
  IN dx * dx + dy * dy > tolerance * tolerance * d * d

\* utils.pointer.getPointerId
getPointerId(pointer) == pointer.id

\* utils.copyAction(dest, src): the value of dest afterwards
copyAction(dest, src) ==
  [dest EXCEPT !.name = src.name, !.axis = src.axis, !.edges = src.edges]

\* utils.pointer.pointerExtend(dest, source): the value of dest afterwards
pointerExtend(dest, pointer) == pointer

(***************************************************************************)
(* The session.                                                            *)
(***************************************************************************)
\* The empty object {} as a pointer, and null as an InteractEvent.
NoPointer == [id |-> 0, px |-> 0, py |-> 0, cx |-> 0, cy |-> 0]

NoEvent ==
  [ type |-> NULL, action |-> NULL, element |-> NULL, event |-> NULL,
    preEnd |-> FALSE ]

\* constructor ({ pointerType, signals })
NewInteraction(pointerType) ==
  [ target |-> NULL,
    element |-> NULL,
    prepared |-> [name |-> NULL, axis |-> NULL, edges |-> NULL],
    pointers |-> <<>>,
    pointerIds |-> <<>>,
    downTargets |-> <<>>,
    downTimes |-> <<>>,
    prevCoords |-> ZeroCoords,
    curCoords |-> ZeroCoords,
    startCoords |-> ZeroCoords,
    pointerDelta |-> ZeroCoords,
    downEvent |-> NULL,
    downPointer |-> NoPointer,   \* {}
    prevEvent |-> NoEvent,       \* null
    pointerIsDown |-> FALSE,
    pointerWasMoved |-> FALSE,
    interacting |-> FALSE,   \* _interacting
    ending |-> FALSE,        \* _ending
    simulation |-> FALSE,    \* never assigned in this file: undefined, falsy
    pointerType |-> pointerType ]

(***************************************************************************)
(* A listener of the signal bus, registered for the running handler: when  *)
(* signal `on` fires it does `do`.  "veto" returns false; the others call  *)
(* a method of the session, as the examples in the source's comments do.   *)
(***************************************************************************)
NoListener == [on |-> "-", do |-> "none", action |-> Drag]

Listener(on, do, action) == [on |-> on, do |-> do, action |-> action]

(***************************************************************************)
(* The machine a handler runs on.                                          *)
(*   s      the session                                                    *)
(*   log    the notifications fired so far                                 *)
(*   err    a TypeError was thrown and is unwinding the handler            *)
(*   ret    the value of the last signals.fire: FALSE iff it was false     *)
(*   val    the value returned by the last updatePointer                   *)
(*   depth  0 in the handler itself, +1 inside each listener               *)
(* A method is written as the composition of its statements, each an       *)
(* operator from machine to machine; a statement is dead code once an      *)
(* error unwinds.                                                          *)
(***************************************************************************)
Machine(s, listener) ==
  [ s |-> s, log |-> <<>>, err |-> FALSE, ret |-> TRUE, val |-> 0,
    listener |-> listener, budget |-> MaxNest, depth |-> 0 ]

\* An assignment to fields of the session.
Set(m, s) == IF m.err THEN m ELSE [m EXCEPT !.s = s]

\* One entry of the log.  idx: the pointerIndex carried (-2: none carried);
\* dup: the duplicate flag of "move"; ia, n, ids, ending: interacting(),
\* pointerIds.length, pointerIds and _ending when fired; after:
\* interacting() when the listeners have returned; vetoed: a listener
\* returned false.
Entry(m, sig, idx, dup) ==
  [ sig |-> sig, depth |-> m.depth, idx |-> idx, dup |-> dup,
    ia |-> m.s.interacting, n |-> Len(m.s.pointerIds),
    ids |-> m.s.pointerIds, ending |-> m.s.ending,
    after |-> m.s.interacting, vetoed |-> FALSE ]

Logged(m, sig, idx, dup) == [m EXCEPT !.log = Append(@, Entry(m, sig, idx, dup))]

RECURSIVE Fire(_, _, _, _)
RECURSIVE _fireEvent(_, _)
RECURSIVE stop(_)
RECURSIVE start(_, _, _, _)
RECURSIVE doMove(_, _, _)
RECURSIVE end(_, _)
RECURSIVE React(_)

\* _createPreparedEvent (event, phase, preEnd): new InteractEvent(this, event,
\* this.prepared.name, phase, this.element, null, preEnd)
_createPreparedEvent(s, event, phase, preEnd) ==
  [ type |-> phase, action |-> s.prepared.name, element |-> s.element,
    event |-> event, preEnd |-> preEnd ]

\* this.prevEvent = iEvent
SetPrevEvent(m, iEvent) ==
  IF m.err THEN m ELSE [m EXCEPT !.s.prevEvent = iEvent]

\* Reading .fire of a null target throws a TypeError.
Throw(m) ==
  [m EXCEPT !.err = TRUE, !.log = Append(@, Entry(m, "TypeError", -2, FALSE))]

\* _fireEvent (iEvent): this.target.fire(iEvent); this.prevEvent = iEvent
_fireEvent(m, iEvent) ==
  IF m.err THEN m
  ELSE IF m.s.target = NULL THEN Throw(m)
  ELSE SetPrevEvent(Fire(m, "target.fire:" \o iEvent.type, -2, FALSE), iEvent)

\* interacting ()
interacting(s) == s.interacting

\* currentAction ()
currentAction(s) == IF s.interacting THEN s.prepared.name ELSE NULL

\* Faulty variant of the assignments of stop: the prepared name survives.
Stopped_KeepingName(m) ==
  IF m.err THEN m
  ELSE [m EXCEPT !.s.target = NULL, !.s.element = NULL,
                 !.s.interacting = FALSE, !.s.prevEvent = NoEvent]

\* The assignments of stop.
Stopped(m) ==
  IF m.err THEN m
  ELSE [m EXCEPT !.s.target = NULL, !.s.element = NULL,
                 !.s.interacting = FALSE,
                 !.s.prepared.name = NULL, !.s.prevEvent = NoEvent]

\* Faulty variant of stop: the fields are cleared without the notification.
StopSilently(m) == Stopped(m)

\* stop ()
stop(m) == Stopped(Fire(m, "stop", -2, FALSE))

\* Faulty variant of the precondition of start: one contact is enough for
\* every action.
CanStart_AnyAction(s, action) ==
  ~ ( \/ interacting(s)
      \/ ~s.pointerIsDown
      \/ Len(s.pointerIds) < 1 )

\* The precondition of start.
CanStart(s, action) ==
  ~ ( \/ interacting(s)
      \/ ~s.pointerIsDown
      \/ Len(s.pointerIds) < (IF action.name = "gesture" THEN 2 ELSE 1) )

\* The assignments of start.
Started(s, action, target, element) ==
  [s EXCEPT !.prepared = copyAction(@, action),
            !.target = target,
            !.element = element,
            !.interacting = TRUE]

\* The start event, built from the session as start has assigned it.
StartEvent(s, action, target, element) ==
  _createPreparedEvent(Started(s, action, target, element), s.downEvent,
                       "start", FALSE)

\* start (action, target, element)
start(m, action, target, element) ==
  IF m.err \/ ~CanStart(m.s, action) THEN m
  ELSE Fire(_fireEvent(Fire(Set(m, Started(m.s, action, target, element)),
                            "action-start", -2, FALSE),
                       StartEvent(m.s, action, target, element)),
            "after-action-start", -2, FALSE)

\* event || this.prevEvent
EventOr(s, event) ==
  IF event = NULL
  THEN (IF s.prevEvent = NoEvent THEN NULL ELSE "prevEvent")
  ELSE event

\* doMove after before-action-move has been fired (machine m)
MoveUnlessVetoed(m, event, preEnd) ==
  IF m.err \/ ~m.ret THEN m
  ELSE Fire(_fireEvent(Fire(m, "action-move", -2, FALSE),
                       _createPreparedEvent(m.s, event, "move", preEnd)),
            "after-action-move", -2, FALSE)

\* doMove (signalArg); event is signalArg.event, NULL when doMove is called
\* without argument and the event defaults to this.prevEvent
doMove(m, event, preEnd) ==
  IF m.err THEN m
  ELSE MoveUnlessVetoed(Fire(m, "before-action-move", -2, FALSE),
                        EventOr(m.s, event), preEnd)

\* this._ending = value
SetEnding(m, value) == IF m.err THEN m ELSE [m EXCEPT !.s.ending = value]

\* Faulty variant of end after before-action-end: the veto is ignored.
EndIgnoringVeto(m, endEvent) ==
  IF m.err THEN m
  ELSE stop(SetEnding(Fire(_fireEvent(Fire(m, "action-end", -2, FALSE),
                                      endEvent),
                           "after-action-end", -2, FALSE),
                      FALSE))

\* end after before-action-end has been fired (machine m)
EndUnlessVetoed(m, endEvent) ==
  IF m.err THEN m
  ELSE IF ~m.ret THEN SetEnding(m, FALSE)
  ELSE stop(SetEnding(Fire(_fireEvent(Fire(m, "action-end", -2, FALSE),
                                      endEvent),
                           "after-action-end", -2, FALSE),
                      FALSE))

\* end (event)
end(m, event) ==
  IF m.err THEN m
  ELSE IF interacting(m.s)
  THEN EndUnlessVetoed(
         Fire(SetEnding(m, TRUE), "before-action-end", -2, FALSE),
         _createPreparedEvent(m.s, EventOr(m.s, event), "end", FALSE))
  ELSE stop(SetEnding(SetEnding(m, TRUE), FALSE))

\* What the registered listener does when its signal fires.
React(m) ==
  CASE m.listener.do = "start" -> start(m, m.listener.action, Target1, Element1)
    [] m.listener.do = "end" -> end(m, NULL)
    [] m.listener.do = "stop" -> stop(m)
    [] m.listener.do = "doMove" -> doMove(m, NULL, FALSE)
    [] OTHER -> m

\* The registered listener is called for this signal.
Reacts(m, sig) == m.listener.on = sig /\ m.budget > 0

\* Control enters a listener.
Enter(m) == [m EXCEPT !.budget = @ - 1, !.depth = @ + 1]

\* Control returns from the listeners of the signal logged at k, fired
\* from machine m0; m is the machine they leave behind.
Return(m0, k, veto, m) ==
  [m EXCEPT !.depth = m0.depth,
            !.ret = ~veto,
            !.log[k].after = m.s.interacting,
            !.log[k].vetoed = veto]

\* signals.fire(name, arg): the listeners of `name` run in order, the first
\* one returning false ends the chain and makes fire return false.
Fire(m, sig, idx, dup) ==
  IF m.err THEN m
  ELSE IF Reacts(m, sig)
  THEN Return(m, Len(m.log) + 1, m.listener.do = "veto",
              React(Enter(Logged(m, sig, idx, dup))))
  ELSE Return(m, Len(m.log) + 1, FALSE, Logged(m, sig, idx, dup))

\* Faulty variant of getPointerIndex: mouse and pen are looked up by
\* identifier as touch contacts are.
getPointerIndex_ById(s, pointer) == IndexOf(s.pointerIds, getPointerId(pointer))

\* getPointerIndex (pointer)
getPointerIndex(s, pointer) ==
  IF s.pointerType = "mouse" \/ s.pointerType = "pen"
  THEN 0
  ELSE IndexOf(s.pointerIds, getPointerId(pointer))

\* updatePointer: the index after  if (index === -1) { ... }
SlotOf(s, pointer) ==
  IF getPointerIndex(s, pointer) = -1
  THEN Len(s.pointerIds)
  ELSE getPointerIndex(s, pointer)

\* updatePointer: if (index === -1) { this.pointerIds[index] = id }
AddSlot(s, pointer) ==
  IF getPointerIndex(s, pointer) = -1
  THEN [s EXCEPT !.pointerIds = ArrSet(@, Len(@), getPointerId(pointer))]
  ELSE s

\* updatePointer: the first three assignments of  if (down) { ... }
MarkDown(s, pointer, index) ==
  [s EXCEPT !.pointerIds = ArrSet(@, index, getPointerId(pointer)),
            !.pointers = ArrSet(@, index, pointer),
            !.pointerIsDown = TRUE]

\* Faulty variant of the reset on down: pointerWasMoved is cleared while
\* interacting too.
ResetOnDown_Always(s, pointer, event, eventTarget, index) ==
  IF ~interacting(s)
  THEN [s EXCEPT !.startCoords = setCoords(s.pointers),
                 !.curCoords = copyCoords(setCoords(s.pointers)),
                 !.prevCoords = copyCoords(setCoords(s.pointers)),
                 !.downEvent = event,
                 !.downTimes = ArrSet(@, index, NOW),
                 !.downTargets = ArrSet(@, index, eventTarget),
                 !.pointerWasMoved = FALSE,
                 !.downPointer = pointerExtend(@, pointer)]
  ELSE [s EXCEPT !.pointerWasMoved = FALSE]

\* Faulty variant of the reset on down: the whole reset is done while
\* interacting too.
ResetOnDown_Unguarded(s, pointer, event, eventTarget, index) ==
  [s EXCEPT !.startCoords = setCoords(s.pointers),
            !.curCoords = copyCoords(setCoords(s.pointers)),
            !.prevCoords = copyCoords(setCoords(s.pointers)),
            !.downEvent = event,
            !.downTimes = ArrSet(@, index, NOW),
            !.downTargets = ArrSet(@, index, eventTarget),
            !.pointerWasMoved = FALSE,
            !.downPointer = pointerExtend(@, pointer)]

\* updatePointer: if (!this.interacting()) { ... }
ResetOnDown(s, pointer, event, eventTarget, index) ==
  IF ~interacting(s)
  THEN [s EXCEPT !.startCoords = setCoords(s.pointers),
                 !.curCoords = copyCoords(setCoords(s.pointers)),
                 !.prevCoords = copyCoords(setCoords(s.pointers)),
                 !.downEvent = event,
                 !.downTimes = ArrSet(@, index, NOW),
                 !.downTargets = ArrSet(@, index, eventTarget),
                 !.pointerWasMoved = FALSE,
                 !.downPointer = pointerExtend(@, pointer)]
  ELSE s

\* updatePointer: this.pointers[index] = pointer; return index
StorePointer(m, pointer, index) ==
  IF m.err THEN m
  ELSE [m EXCEPT !.s.pointers = ArrSet(@, index, pointer), !.val = index]

\* updatePointer (pointer, event, eventTarget, down); the index it returns
\* is left in val
updatePointer(m, pointer, event, eventTarget, down) ==
  IF m.err THEN m
  ELSE StorePointer(
         IF down
         THEN Fire(Set(m, ResetOnDown(MarkDown(AddSlot(m.s, pointer), pointer,
                                               SlotOf(m.s, pointer)),
                                      pointer, event, eventTarget,
                                      SlotOf(m.s, pointer))),
                   "update-pointer-down", SlotOf(m.s, pointer), FALSE)
         ELSE Set(m, AddSlot(m.s, pointer)),
         pointer, SlotOf(m.s, pointer))

\* Faulty variant of the four splices: the first slot is removed whatever
\* the index.
Spliced_First(m, index) ==
  IF m.err THEN m
  ELSE [m EXCEPT !.s.pointers = Splice(@, 0),
                 !.s.pointerIds = Splice(@, 0),
                 !.s.downTargets = Splice(@, 0),
                 !.s.downTimes = Splice(@, 0)]

\* removePointer: the four splices
Spliced(m, index) ==
  IF m.err THEN m
  ELSE [m EXCEPT !.s.pointers = Splice(@, index),
                 !.s.pointerIds = Splice(@, index),
                 !.s.downTargets = Splice(@, index),
                 !.s.downTimes = Splice(@, index)]

\* removePointer (pointer, event)
removePointer(m, pointer, event) ==
  IF m.err \/ getPointerIndex(m.s, pointer) = -1 THEN m
  ELSE Spliced(Fire(m, "remove-pointer", getPointerIndex(m.s, pointer), FALSE),
               getPointerIndex(m.s, pointer))

\* pointerDown: the "down" signal, with the index updatePointer returned
FireDown(m) == Fire(m, "down", m.val, FALSE)

\* pointerDown (pointer, event, eventTarget)
pointerDown(m, pointer, event, eventTarget) ==
  FireDown(updatePointer(m, pointer, event, eventTarget, TRUE))

\* pointerMove: utils.pointer.setCoords(this.curCoords, this.pointers)
SetCurCoords(m) ==
  IF m.err THEN m ELSE [m EXCEPT !.s.curCoords = setCoords(m.s.pointers)]

\* pointerMove: if (!this.simulation) { ... }
Sampled(m, pointer, event, eventTarget) ==
  IF ~m.s.simulation
  THEN SetCurCoords(updatePointer(m, pointer, event, eventTarget, FALSE))
  ELSE m

\* pointerMove: the duplicateMove test
DuplicateMove(s) ==
  /\ s.curCoords.px * s.prevCoords.n = s.prevCoords.px * s.curCoords.n
  /\ s.curCoords.py * s.prevCoords.n = s.prevCoords.py * s.curCoords.n
  /\ s.curCoords.cx * s.prevCoords.n = s.prevCoords.cx * s.curCoords.n
  /\ s.curCoords.cy * s.prevCoords.n = s.prevCoords.cy * s.curCoords.n

\* pointerMove: register movement greater than pointerMoveTolerance
RegisterMovement(s) ==
  IF s.pointerIsDown /\ ~s.pointerWasMoved
  THEN [s EXCEPT !.pointerWasMoved =
          HypotExceeds(s.curCoords, s.startCoords, pointerMoveTolerance)]
  ELSE s

\* pointerMove: if (!duplicateMove) { setCoordDeltas(...) }
SetDeltas(s) ==
  IF ~DuplicateMove(s)
  THEN [s EXCEPT !.pointerDelta = setCoordDeltas(s.prevCoords, s.curCoords)]
  ELSE s

\* Faulty variant of the roll of the snapshots: prevCoords follows every
\* sample, moved or not.
RollCoords_Always(m) ==
  IF ~m.err
  THEN [m EXCEPT !.s.prevCoords = copyCoords(m.s.curCoords)]
  ELSE m

\* pointerMove: if (this.pointerWasMoved) { copyCoords(prevCoords, curCoords) }
RollCoords(m) ==
  IF ~m.err /\ m.s.pointerWasMoved
  THEN [m EXCEPT !.s.prevCoords = copyCoords(m.s.curCoords)]
  ELSE m

\* Faulty variant of the statements after "move": a duplicate move is
\* treated as any other.
AfterMove_IgnoringDuplicate(m, event, duplicateMove) ==
  RollCoords(IF interacting(m.s) THEN doMove(m, event, FALSE) ELSE m)

\* pointerMove: the statements after the "move" signal (machine m)
AfterMove(m, event, duplicateMove) ==
  IF duplicateMove THEN m
  ELSE RollCoords(IF interacting(m.s) THEN doMove(m, event, FALSE) ELSE m)

\* pointerMove: from the duplicateMove test on (machine m)
MoveSampled(m, pointer, event) ==
  AfterMove(Fire(Set(m, SetDeltas(RegisterMovement(m.s))), "move",
                 getPointerIndex(m.s, pointer), DuplicateMove(m.s)),
            event, DuplicateMove(m.s))

\* pointerMove (pointer, event, eventTarget)
pointerMove(m, pointer, event, eventTarget) ==
  MoveSampled(Sampled(m, pointer, event, eventTarget), pointer, event)

\* Faulty variant of pointerUp's call of end: the call is skipped.
EndSkipped(m, event) == m

\* pointerUp: if (!this.simulation) { this.end(event) }
EndUnlessSimulated(m, event) ==
  IF m.err \/ m.s.simulation THEN m ELSE end(m, event)

\* pointerUp: this.pointerIsDown = false
ClearPointerIsDown(m) ==
  IF m.err THEN m ELSE [m EXCEPT !.s.pointerIsDown = FALSE]

\* Faulty variant of pointerUp: the contact is removed before end runs.
pointerUp_RemovingFirst(m, pointer, event, eventTarget) ==
  ClearPointerIsDown(
    EndUnlessSimulated(
      removePointer(
        Fire(m, IF event = "cancel" THEN "cancel" ELSE "up",
             getPointerIndex(m.s, pointer), FALSE),
        pointer, event),
      event))

\* pointerUp (pointer, event, eventTarget, curEventTarget)
pointerUp(m, pointer, event, eventTarget) ==
  removePointer(
    ClearPointerIsDown(
      EndUnlessSimulated(
        Fire(m, IF event = "cancel" THEN "cancel" ELSE "up",
             getPointerIndex(m.s, pointer), FALSE),
        event)),
    pointer, event)

\* documentBlur (event)
documentBlur(m, event) == Fire(end(m, event), "blur", -2, FALSE)

(***************************************************************************)
(* The dispatcher, src/src/interactions.js.  A dispatch runs on a record d *)
(* of the scope's interactions and prevTouchTime, the matches collected,   *)
(* the value returned by the last getInteraction (the place of the session *)
(* in scope.interactions) and a log of the finder consultations, find      *)
(* notifications, sessions created and session methods called.             *)
(***************************************************************************)
TouchWindow == 500

\* The clock advances by half the window; the page is loaded long after
\* time 0.
ClockStep == TouchWindow \div 2

Epoch == 2 * TouchWindow

Platforms ==
  { [supportsTouch |-> t, supportsPointerEvent |-> p] :
      t \in BOOLEAN, p \in BOOLEAN }

\* init: scope.prevTouchTime = 0; scope.interactions = []
NewScope == [interactions |-> <<>>, prevTouchTime |-> 0]

MouseEventTypes == {"mousedown", "mousemove", "mouseup"}

TouchEventTypes == {"touchstart", "touchmove", "touchend", "touchcancel"}

PointerEventTypes ==
  {"pointerdown", "pointermove", "pointerup", "pointercancel"}

\* init: eventMap, the session method an event type is bound to
methodOf(type) ==
  CASE type \in {"mousedown", "touchstart", "pointerdown"} -> "pointerDown"
    [] type \in {"mousemove", "touchmove", "pointermove"} -> "pointerMove"
    [] OTHER -> "pointerUp"

\* What the session reads of event.type.
TagOf(type) ==
  CASE type \in {"mousedown", "touchstart", "pointerdown"} -> "down"
    [] type \in {"mousemove", "touchmove", "pointermove"} -> "move"
    [] type \in {"touchcancel", "pointercancel"} -> "cancel"
    [] OTHER -> "up"

\* A raw event: pointers are its changedTouches, or the event itself.
Event(type, pointerType, timeStamp, pointers) ==
  [ type |-> type, pointerType |-> pointerType, timeStamp |-> timeStamp,
    pointers |-> pointers ]

\* A session of scope.interactions; id stands for the identity of the
\* object.
Member(id, s) == [id |-> id, s |-> s]

Dispatching(sc) ==
  [ interactions |-> sc.interactions, prevTouchTime |-> sc.prevTouchTime,
    matches |-> <<>>, log |-> <<>>, ret |-> 0 ]

Note(d, op, k) == [d EXCEPT !.log = Append(@, [op |-> op, k |-> k])]

\* newInteraction (options, scope)
newInteraction(d, pointerType) ==
  [Note(d, "new", Len(d.interactions) + 1) EXCEPT
     !.interactions =
        Append(@, Member(Len(@) + 1, NewInteraction(pointerType))),
     !.ret = Len(d.interactions) + 1]

\* getInteraction: finder.search and the find notification.  choice.found
\* is the session the finder returns and choice.designated the one in
\* signalArg.interaction when the find listeners have returned (0: none).
Searched(d, choice) ==
  Note(Note(d, "finder.search", choice.found), "find", choice.designated)

\* Faulty variant of getInteraction: the session the finder returned is
\* used, whatever the listeners of find have done to signalArg.
getInteraction_IgnoringFind(d, pointerType, choice) ==
  IF choice.found # 0
  THEN [Searched(d, choice) EXCEPT !.ret = choice.found]
  ELSE newInteraction(Searched(d, choice), pointerType)

\* getInteraction (searchDetails)
getInteraction(d, pointerType, choice) ==
  IF choice.designated # 0
  THEN [Searched(d, choice) EXCEPT !.ret = choice.designated]
  ELSE newInteraction(Searched(d, choice), pointerType)

\* matches.push([pointer, interaction])
Push(d, pointer) ==
  [d EXCEPT !.matches = Append(@, [pointer |-> pointer, k |-> d.ret])]

RECURSIVE TouchMatches(_, _, _, _)
\* doOnInteractions: for (const changedTouch of event.changedTouches)
TouchMatches(d, touches, pointerType, choices) ==
  IF touches = <<>> THEN d
  ELSE TouchMatches(Push(getInteraction(d, pointerType, Head(choices)),
                         Head(touches)),
                    Tail(touches), pointerType, Tail(choices))

\* Faulty variant of the mouse filter: a zero timeStamp is let through.
invalidPointer_KeepingSimulated(d, br, now, event) ==
  /\ ~br.supportsPointerEvent
  /\ event.type \in MouseEventTypes
  /\ \/ \E k \in 1..Len(d.interactions) :
          /\ d.interactions[k].s.pointerType # "mouse"
          /\ d.interactions[k].s.pointerIsDown
     \/ now - d.prevTouchTime < TouchWindow

\* doOnInteractions: invalidPointer
invalidPointer(d, br, now, event) ==
  /\ ~br.supportsPointerEvent
  /\ event.type \in MouseEventTypes
  /\ \/ \E k \in 1..Len(d.interactions) :
          /\ d.interactions[k].s.pointerType # "mouse"
          /\ d.interactions[k].s.pointerIsDown
     \/ now - d.prevTouchTime < TouchWindow
     \/ event.timeStamp = 0

\* interaction[method](pointer, event, eventTarget, curEventTarget)
Called(s, method, pointer, event) ==
  CASE method = "pointerDown" ->
         pointerDown(Machine(s, NoListener), pointer, event, Element1).s
    [] method = "pointerMove" ->
         pointerMove(Machine(s, NoListener), pointer, event, Element1).s
    [] OTHER ->
         pointerUp(Machine(s, NoListener), pointer, event, Element1).s

RECURSIVE InvokeFrom(_, _, _)
\* doOnInteractions: for (const [pointer, interaction] of matches), from
\* the j-th match on
InvokeFrom(d, j, event) ==
  IF j > Len(d.matches) THEN d
  ELSE InvokeFrom(
         [Note(d, methodOf(event.type), d.matches[j].k) EXCEPT
            !.interactions[d.matches[j].k].s =
               Called(@, methodOf(event.type), d.matches[j].pointer,
                      TagOf(event.type))],
         j + 1, event)

\* scope.prevTouchTime = new Date().getTime()
SetPrevTouchTime(d, now) == [d EXCEPT !.prevTouchTime = now]

\* doOnInteractions (method, scope): the listener of one event
doOnInteractions(sc, br, now, event, choices) ==
  IF br.supportsTouch /\ event.type \in TouchEventTypes
  THEN InvokeFrom(TouchMatches(SetPrevTouchTime(Dispatching(sc), now),
                               event.pointers, event.pointerType, choices),
                  1, event)
  ELSE IF invalidPointer(Dispatching(sc), br, now, event)
  THEN Dispatching(sc)
  ELSE InvokeFrom(Push(getInteraction(Dispatching(sc), event.pointerType,
                                      Head(choices)),
                       Head(event.pointers)),
                  1, event)

RECURSIVE BlurFrom(_, _)
\* init: eventMap.blur, from the j-th session on
BlurFrom(d, j) ==
  IF j > Len(d.interactions) THEN d
  ELSE BlurFrom(
         [Note(d, "documentBlur", j) EXCEPT
            !.interactions[j].s =
               documentBlur(Machine(@, NoListener), "blur").s],
         j + 1)

(***************************************************************************)
(* The handlers invoked from outside, each with the listener registered    *)
(* while it runs.  On...(inputs) is the machine the handler leaves behind  *)
(* when it is run on the current session.                                  *)
(***************************************************************************)
PointerTypes == {"mouse", "pen", "touch"}

\* The listeners that can matter to a handler are those of the signals it
\* fires: a listener of any other signal is never called.
MoveListeners ==
  { NoListener,
    Listener("move", "start", Drag),
    Listener("move", "end", Drag),
    Listener("before-action-move", "veto", Drag) }

EndListeners ==
  { NoListener,
    Listener("before-action-end", "veto", Drag) }

StopListeners ==
  { NoListener,
    Listener("stop", "start", Drag) }

OnPointerDown(pointer, event, listener) ==
  pointerDown(Machine(interaction, listener), pointer, event, Element1)

OnPointerMove(pointer, event, listener) ==
  pointerMove(Machine(interaction, listener), pointer, event, Element1)

OnPointerUp(pointer, event, listener) ==
  pointerUp(Machine(interaction, listener), pointer, event, Element1)

OnRemovePointer(pointer, listener) ==
  removePointer(Machine(interaction, listener), pointer, "up")

OnStart(action, listener) ==
  start(Machine(interaction, listener), action, Target1, Element1)

OnDoMove(listener) == doMove(Machine(interaction, listener), NULL, FALSE)

OnEnd(event, listener) == end(Machine(interaction, listener), event)

OnStop(listener) == stop(Machine(interaction, listener))

OnDocumentBlur(listener) ==
  documentBlur(Machine(interaction, listener), "blur")

Fired(lg, sig) == \E k \in 1..Len(lg) : lg[k].sig = sig

\* The session a handler leaves behind becomes the state; the history
\* variable follows pointerWasMoved and the stop notifications.
Done(m) ==
  /\ interaction' = m.s
  /\ stopSinceMoved' =
       IF ~m.s.pointerWasMoved THEN FALSE
       ELSE IF ~interaction.pointerWasMoved THEN FALSE
       ELSE stopSinceMoved \/ Fired(m.log, "stop")
  /\ UNCHANGED <<scope, browser, clock>>

PointerDown(pointer, event, listener) ==
  Done(OnPointerDown(pointer, event, listener))

PointerMove(pointer, event, listener) ==
  Done(OnPointerMove(pointer, event, listener))

PointerUp(pointer, event, listener) ==
  Done(OnPointerUp(pointer, event, listener))

RemovePointer(pointer, listener) == Done(OnRemovePointer(pointer, listener))

Start(action, listener) == Done(OnStart(action, listener))

DoMove(listener) == Done(OnDoMove(listener))

End(event, listener) == Done(OnEnd(event, listener))

Stop(listener) == Done(OnStop(listener))

DocumentBlur(listener) == Done(OnDocumentBlur(listener))

\* One session, driven directly; the dispatcher is idle.
Init ==
  /\ \E pointerType \in PointerTypes :
       interaction = NewInteraction(pointerType)
  /\ stopSinceMoved = FALSE
  /\ scope = NewScope
  /\ browser = [supportsTouch |-> TRUE, supportsPointerEvent |-> FALSE]
  /\ clock = Epoch

\* The inputs of each handler in the current state.
DownInputs ==
  { <<p, e, NoListener>> : p \in PointersOf(interaction.pointerType),
                           e \in DownTypes }

MoveInputs ==
  { <<p, e, l>> : p \in PointersOf(interaction.pointerType),
                  e \in MoveTypes, l \in MoveListeners }

UpInputs ==
  { <<p, e, l>> : p \in UpPointersOf(interaction.pointerType),
                  e \in UpTypes, l \in EndListeners }

RemoveInputs ==
  { <<p, NoListener>> : p \in UpPointersOf(interaction.pointerType) }

StartInputs == { <<a, NoListener>> : a \in Actions }

EndInputs == { <<e, l>> : e \in {NULL, "up"}, l \in EndListeners }

Next ==
  \/ \E i \in DownInputs : PointerDown(i[1], i[2], i[3])
  \/ \E i \in MoveInputs : PointerMove(i[1], i[2], i[3])
  \/ \E i \in UpInputs : PointerUp(i[1], i[2], i[3])
  \/ \E i \in RemoveInputs : RemovePointer(i[1], i[2])
  \/ \E i \in StartInputs : Start(i[1], i[2])
  \/ \E l \in MoveListeners : DoMove(l)
  \/ \E i \in EndInputs : End(i[1], i[2])
  \/ \E l \in StopListeners : Stop(l)
  \/ \E l \in EndListeners : DocumentBlur(l)

Spec == Init /\ [][Next]_vars

(***************************************************************************)
(* The dispatcher driven by raw events.  The platform is fixed when the    *)
(* page is loaded; the events that arrive are those the platform delivers  *)
(* to the listeners of eventMap.  The finder and the listeners of find are *)
(* not part of the source: any session of scope.interactions, or none, may *)
(* be found and may be designated.                                         *)
(***************************************************************************)
MousePointer == Pointer(1, Origin)

TouchIds == {1, 2}

ChangedTouches ==
  { <<Pointer(id, Origin)>> : id \in TouchIds }
    \cup { <<Pointer(1, Origin), Pointer(2, Origin)>> }

MouseEvents(now) ==
  { Event(type, "mouse", timeStamp, <<MousePointer>>) :
      type \in MouseEventTypes, timeStamp \in {0, now} }

TouchEvents(now) ==
  { Event(type, "touch", now, touches) :
      type \in TouchEventTypes, touches \in ChangedTouches }

PointerEvents(now) ==
  { Event(type, "mouse", now, <<MousePointer>>) : type \in PointerEventTypes }
    \cup { Event(type, "touch", now, <<Pointer(id, Origin)>>) :
             type \in PointerEventTypes, id \in TouchIds }

EventsOf(br, now) ==
  IF br.supportsPointerEvent THEN PointerEvents(now)
  ELSE IF br.supportsTouch THEN MouseEvents(now) \cup TouchEvents(now)
  ELSE MouseEvents(now)

\* What the finder returns and what is designated after find: the listeners
\* keep the session found, designate one when none was found, or clear it.
ChoicesUpTo(n) ==
  { c \in [found : 0..n, designated : 0..n] :
      c.found = c.designated \/ c.found = 0 \/ c.designated = 0 }

\* The pointer types of the sessions of scope.interactions, in order.
TypesOf(sc) ==
  [k \in 1..Len(sc.interactions) |-> sc.interactions[k].s.pointerType]

\* No session, or a session that exists and has the pointer type searched
\* for.
Candidate(types, pointerType, k) ==
  k = 0 \/ (k <= Len(types) /\ types[k] = pointerType)

RECURSIVE Valid(_, _, _)
\* Every choice names a candidate at the time its contact is resolved.
Valid(types, pointerType, choices) ==
  \/ choices = <<>>
  \/ /\ Candidate(types, pointerType, Head(choices).found)
     /\ Candidate(types, pointerType, Head(choices).designated)
     /\ Valid(IF Head(choices).designated = 0
              THEN Append(types, pointerType) ELSE types,
              pointerType, Tail(choices))

ChoicesFor(sc, event) ==
  { cs \in { <<c>> : c \in ChoicesUpTo(Len(sc.interactions)) }
             \cup { <<c1, c2>> :
                      c1 \in ChoicesUpTo(Len(sc.interactions)),
                      c2 \in ChoicesUpTo(Len(sc.interactions) + 1) } :
      /\ Len(cs) = Len(event.pointers)
      /\ Valid(TypesOf(sc), event.pointerType, cs) }

Dispatched(d) ==
  /\ Len(d.interactions) <= MaxSessions
  /\ scope' = [interactions |-> d.interactions,
               prevTouchTime |-> d.prevTouchTime]
  /\ UNCHANGED <<interaction, stopSinceMoved, browser, clock>>

Dispatch(event, choices) ==
  Dispatched(doOnInteractions(scope, browser, clock, event, choices))

Blur ==
  /\ scope.interactions # <<>>
  /\ Dispatched(BlurFrom(Dispatching(scope), 1))

Tick ==
  /\ clock < Epoch + MaxTicks * ClockStep
  /\ clock' = clock + ClockStep
  /\ UNCHANGED <<interaction, stopSinceMoved, scope, browser>>

DispatchInit ==
  /\ interaction = NewInteraction("mouse")
  /\ stopSinceMoved = FALSE
  /\ scope = NewScope
  /\ browser \in Platforms
  /\ clock = Epoch

DispatchNext ==
  \/ \E event \in EventsOf(browser, clock) :
       \E choices \in ChoicesFor(scope, event) : Dispatch(event, choices)
  \/ Blur
  \/ Tick

DispatchSpec == DispatchInit /\ [][DispatchNext]_vars

(***************************************************************************)
(* What the properties below read.                                         *)
(***************************************************************************)
\* The names of the notifications of a log, in order.
Sigs(lg) == [k \in 1..Len(lg) |-> lg[k].sig]

\* The notifications the handler itself fired (not its listeners).
IsOwn(e) == e.depth = 0

Own(lg) == SelectSeq(lg, IsOwn)

\* The contacts an action needs, in the words of the claims.
Need(action) == IF action.name = "gesture" THEN 2 ELSE 1

\* Equal page and client coordinates.
SameCoords(c, d) ==
  /\ c.px * d.n = d.px * c.n /\ c.py * d.n = d.py * c.n
  /\ c.cx * d.n = d.cx * c.n /\ c.cy * d.n = d.cy * c.n

\* The client-space distance between two snapshots exceeds 1.
ClientDistanceExceedsOne(c, d) ==
  (c.cx * d.n - d.cx * c.n) * (c.cx * d.n - d.cx * c.n)
    + (c.cy * d.n - d.cy * c.n) * (c.cy * d.n - d.cy * c.n)
    > (c.n * d.n) * (c.n * d.n)

At(pos) == [px |-> pos.px, py |-> pos.py, cx |-> pos.cx, cy |-> pos.cy, n |-> 1]

(***************************************************************************)
(* Properties of start and stop.                                           *)
(***************************************************************************)
\* C1: start(action, target, element) changes nothing and fires no
\* notification when the session is already interacting, holds no contact,
\* or holds fewer contacts than the action needs (2 for gesture, 1 for any
\* other action).
C1_StartRefused ==
  \A i \in StartInputs :
    ( \/ interaction.interacting
      \/ Len(interaction.pointerIds) = 0
      \/ Len(interaction.pointerIds) < Need(i[1]) )
    => /\ OnStart(i[1], i[2]).s = interaction
       /\ OnStart(i[1], i[2]).log = <<>>
       /\ ~OnStart(i[1], i[2]).err

\* A touch session with one contact held down, idle: a gesture is refused
\* while a drag would start.
C1_Witness ==
  /\ interaction.pointerType = "touch"
  /\ interaction.pointerIsDown
  /\ ~interaction.interacting
  /\ Len(interaction.pointerIds) = 1
  /\ OnStart(Gesture, NoListener).s = interaction
  /\ OnStart(Drag, NoListener).s.interacting

\* C2: in every state of a mouse or touch session reached by pointerDown,
\* pointerMove and pointerUp, a
\* start(action, target, element) on a session that is not interacting and
\* holds at least the contacts the action needs makes the session
\* interacting with that action's name, target and element, and fires
\* action-start, the target's start event and after-action-start in order.
C2_StartTakesEffect ==
  \A i \in StartInputs :
    ( /\ interaction.pointerType \in {"mouse", "touch"}
      /\ ~interaction.interacting
      /\ Len(interaction.pointerIds) >= Need(i[1]) )
    => /\ OnStart(i[1], i[2]).s.interacting
       /\ OnStart(i[1], i[2]).s.prepared.name = i[1].name
       /\ OnStart(i[1], i[2]).s.target = Target1
       /\ OnStart(i[1], i[2]).s.element = Element1
       /\ Sigs(OnStart(i[1], i[2]).log)
            = <<"action-start", "target.fire:start", "after-action-start">>

\* C3: whenever the session is interacting its prepared action has a name,
\* and after any stop(), called directly or at the end of an end() that was
\* not vetoed, the session is not interacting and the prepared name is null.
C3_InteractingHasName ==
  /\ interaction.interacting => interaction.prepared.name # NULL
  /\ \A l \in StopListeners :
       /\ ~OnStop(l).s.interacting
       /\ OnStop(l).s.prepared.name = NULL
  /\ \A e \in {NULL, "up"} :
       Fired(OnEnd(e, NoListener).log, "stop")
       => /\ ~OnEnd(e, NoListener).s.interacting
          /\ OnEnd(e, NoListener).s.prepared.name = NULL

\* A drag was started and has been stopped: the axis of the prepared action
\* stays, its name is gone.
C3_Witness ==
  /\ ~interaction.interacting
  /\ interaction.prepared.name = NULL
  /\ interaction.prepared.axis = "xy"
  /\ interaction.target = NULL

(***************************************************************************)
(* Properties of pointerWasMoved.                                          *)
(***************************************************************************)
\* pointerWasMoved becomes true from the current state to machine m only if
\* m is left by a pointerMove with the client-space distance between its
\* current and start coordinates above 1.
SetOnlyByMove(op, m) ==
  (~interaction.pointerWasMoved /\ m.s.pointerWasMoved)
  => /\ op = "pointerMove"
     /\ ClientDistanceExceedsOne(m.s.curCoords, m.s.startCoords)

\* pointerWasMoved does not become false from the current state to machine
\* m unless stop has been executed since it became true.
KeptUntilStop(op, m) ==
  /\ (interaction.pointerWasMoved /\ ~m.s.pointerWasMoved)
     => (stopSinceMoved \/ Fired(m.log, "stop"))
  /\ SetOnlyByMove(op, m)

\* pointerWasMoved becomes false from the current state to machine m only
\* in a pointerDown on a session that is not interacting; stop keeps it.
KeptUntilDown(op, m) ==
  /\ (interaction.pointerWasMoved /\ ~m.s.pointerWasMoved)
     => (op = "pointerDown" /\ ~interaction.interacting)
  /\ (interaction.pointerWasMoved /\ op = "stop") => m.s.pointerWasMoved
  /\ SetOnlyByMove(op, m)

\* C4, as stated: on a mouse or touch session, once pointerWasMoved is true
\* no handler makes it false unless stop has been executed since it became
\* true; it becomes true only in a pointerMove that leaves the client-space
\* distance between current and start coordinates above 1.
C4_ResetOnlyAfterStop ==
  interaction.pointerType \in {"mouse", "touch"}
  => /\ \A i \in DownInputs :
          KeptUntilStop("pointerDown", OnPointerDown(i[1], i[2], i[3]))
     /\ \A i \in MoveInputs :
          KeptUntilStop("pointerMove", OnPointerMove(i[1], i[2], i[3]))
     /\ \A i \in UpInputs :
          KeptUntilStop("pointerUp", OnPointerUp(i[1], i[2], i[3]))
     /\ \A i \in StartInputs : KeptUntilStop("start", OnStart(i[1], i[2]))

\* C4, amended: once pointerWasMoved is true, the only handler that makes it
\* false is a pointerDown on a session that is not interacting, whether or
\* not stop has been executed; it becomes true only in a pointerMove that
\* leaves the client-space distance between current and start coordinates
\* above 1, hence at most once between two such pointerDowns.
C4_ResetOnlyOnDown ==
     /\ \A i \in DownInputs :
          KeptUntilDown("pointerDown", OnPointerDown(i[1], i[2], i[3]))
     /\ \A i \in MoveInputs :
          KeptUntilDown("pointerMove", OnPointerMove(i[1], i[2], i[3]))
     /\ \A i \in UpInputs :
          KeptUntilDown("pointerUp", OnPointerUp(i[1], i[2], i[3]))
     /\ \A i \in StartInputs : KeptUntilDown("start", OnStart(i[1], i[2]))
     /\ \A i \in RemoveInputs :
          KeptUntilDown("removePointer", OnRemovePointer(i[1], i[2]))
     /\ \A i \in EndInputs : KeptUntilDown("end", OnEnd(i[1], i[2]))
     /\ \A l \in MoveListeners : KeptUntilDown("doMove", OnDoMove(l))
     /\ \A l \in StopListeners : KeptUntilDown("stop", OnStop(l))
     /\ \A l \in EndListeners :
          KeptUntilDown("documentBlur", OnDocumentBlur(l))

\* The pointer was moved, no stop has been executed since, and a further
\* pointerDown resets pointerWasMoved.
C4_Witness ==
  /\ interaction.pointerType = "mouse"
  /\ interaction.pointerWasMoved
  /\ ~stopSinceMoved
  /\ ~interaction.interacting
  /\ \A i \in DownInputs :
       ~OnPointerDown(i[1], i[2], i[3]).s.pointerWasMoved

(***************************************************************************)
(* Properties of end and of pointerMove.                                   *)
(***************************************************************************)
VetoEnd == Listener("before-action-end", "veto", Drag)

\* Machine m is left by an end that was vetoed in the current state.
EndWasVetoed(m) ==
  /\ Sigs(m.log) = <<"before-action-end">>
  /\ m.log[1].vetoed
  /\ m.s.interacting
  /\ m.s.prepared = interaction.prepared
  /\ m.s.target = interaction.target
  /\ m.s.element = interaction.element
  /\ ~m.s.ending

\* Machine m is left by an end that ran to its stop.
EndWasCompleted(m) ==
  /\ Fired(m.log, "action-end")
  /\ Fired(m.log, "stop")
  /\ ~m.s.interacting

\* C5: when a before-action-end listener returns false during end(event) on
\* an interacting session, no action-end, no end event on the target, no
\* after-action-end and no stop occur; afterwards the session is still
\* interacting, prepared, target and element are unchanged and the ending
\* flag is false; a later end(event) that is not vetoed fires action-end and
\* stop.
C5_VetoedEnd ==
  interaction.interacting
  => \A e \in {NULL, "up"} :
       /\ EndWasVetoed(OnEnd(e, VetoEnd))
       /\ EndWasCompleted(end(Machine(OnEnd(e, VetoEnd).s, NoListener), e))

\* An interacting session whose end is vetoed.
C5_Witness ==
  /\ interaction.interacting
  /\ interaction.prepared.name = "gesture"
  /\ OnEnd("up", VetoEnd).log[1].vetoed
  /\ OnEnd("up", VetoEnd).s.interacting

\* own is what a pointerMove fired itself and s the session it left, when
\* its sample repeats the previous snapshot of the current state.
MovedAsDuplicate(own, s) ==
  /\ Len(own) = 1
  /\ own[1].sig = "move"
  /\ own[1].dup
  /\ s.pointerDelta = interaction.pointerDelta
  /\ s.prevCoords = interaction.prevCoords

\* own is what a pointerMove fired itself when its sample differs from the
\* previous snapshot; the listener registered is the last argument.
MovedAsNew(own, listener) ==
  /\ own[1].sig = "move"
  /\ ~own[1].dup
  /\ own[1].after => (Len(own) >= 2 /\ own[2].sig = "before-action-move")
  /\ (interaction.interacting /\ listener = NoListener) => own[1].after

MovedAsClaimed(m, listener) ==
  IF SameCoords(m.s.curCoords, interaction.prevCoords)
  THEN MovedAsDuplicate(Own(m.log), m.s)
  ELSE MovedAsNew(Own(m.log), listener)

\* C6: a pointerMove whose resulting current page and client coordinates
\* equal the previous snapshot's fires move with duplicate = true, does not
\* recompute pointerDelta, fires neither before-action-move nor action-move
\* and does not change prevCoords, even while interacting; a pointerMove
\* that is not a duplicate fires move with duplicate = false and, the
\* session interacting, then calls doMove, whose first act is
\* before-action-move.
C6_DuplicateMove ==
  \A i \in MoveInputs :
    MovedAsClaimed(OnPointerMove(i[1], i[2], i[3]), i[3])

\* An interacting session that has moved and receives the same sample again.
C6_Witness ==
  /\ interaction.interacting
  /\ interaction.pointerWasMoved
  /\ interaction.pointerType = "mouse"
  /\ OnPointerMove(Pointer(1, Far), "move", NoListener).log[1].dup

(***************************************************************************)
(* Properties of the registry of contacts.                                 *)
(***************************************************************************)
Distinct(ids) ==
  \A j, k \in 1..Len(ids) : (ids[j] = ids[k]) => (j = k)

\* ids with the entry at zero-based index k removed: the entries before k
\* keep their index, those after k have it lowered by one.
Without(ids, k, left) ==
  /\ Len(left) = Len(ids) - 1
  /\ \A j \in 1..k : left[j] = ids[j]
  /\ \A j \in (k + 1)..Len(left) : left[j] = ids[j + 1]

\* Machine m is left by a pointerDown of the contact in the current state:
\* a new identifier is appended, a known one keeps its place, and "down"
\* carries the index of the contact.
DownRegistered(pointer, m) ==
  /\ m.s.pointerIds =
       IF IndexOf(interaction.pointerIds, pointer.id) = -1
       THEN Append(interaction.pointerIds, pointer.id)
       ELSE interaction.pointerIds
  /\ Own(m.log)[Len(Own(m.log))].sig = "down"
  /\ Own(m.log)[Len(Own(m.log))].idx = IndexOf(m.s.pointerIds, pointer.id)
  /\ Distinct(m.s.pointerIds)

\* Session s is left by the removal of the contact in the current state.
Removed(pointer, s) ==
  IF IndexOf(interaction.pointerIds, pointer.id) = -1
  THEN /\ s.pointerIds = interaction.pointerIds
       /\ s.pointers = interaction.pointers
       /\ s.downTargets = interaction.downTargets
       /\ s.downTimes = interaction.downTimes
  ELSE Without(interaction.pointerIds,
               IndexOf(interaction.pointerIds, pointer.id), s.pointerIds)

\* C7: on a touch session the identifiers of the registry are pairwise
\* distinct and in arrival order: a pointerDown of a new identifier appends
\* it, so N downs of distinct identifiers leave N of them; removing the
\* contact at index k, by removePointer or pointerUp, lowers the index of
\* every later contact by one and leaves the earlier ones, and removing an
\* unknown identifier changes nothing.
C7_TouchRegistry ==
  interaction.pointerType = "touch"
  => /\ Distinct(interaction.pointerIds)
     /\ \A i \in DownInputs :
          DownRegistered(i[1], OnPointerDown(i[1], i[2], i[3]))
     /\ \A i \in RemoveInputs :
          /\ Removed(i[1], OnRemovePointer(i[1], i[2]).s)
          /\ IndexOf(interaction.pointerIds, i[1].id) = -1
             => OnRemovePointer(i[1], i[2]).s = interaction
     /\ \A i \in UpInputs : Removed(i[1], OnPointerUp(i[1], i[2], i[3]).s)

\* Two contacts are held, the later arrival having the smaller identifier,
\* and the removal of the first moves the second to index 0.
C7_Witness ==
  /\ interaction.pointerType = "touch"
  /\ interaction.pointerIds = <<2, 1>>
  /\ interaction.pointerIsDown
  /\ OnRemovePointer(Pointer(2, Origin), NoListener).s.pointerIds = <<1>>

\* C8: after any sequence of pointerDown, pointerMove and pointerUp, moves
\* with no preceding down and downs while interacting included, the four
\* parallel sequences pointerIds, pointers, downTargets and downTimes have
\* the same length.
C8_ParallelLengths ==
  /\ Len(interaction.pointers) = Len(interaction.pointerIds)
  /\ Len(interaction.downTargets) = Len(interaction.pointerIds)
  /\ Len(interaction.downTimes) = Len(interaction.pointerIds)

PointerSignals == {"down", "move", "up", "cancel"}

\* Every down, move and up notification of the log carries index 0.
IndexZero(lg) ==
  \A k \in 1..Len(lg) : lg[k].sig \in PointerSignals => lg[k].idx = 0

StartOnMove == Listener("move", "start", Drag)

ScenarioSignals ==
  {"down", "move", "action-start", "action-move", "up", "action-end", "stop"}

IsScenarioSignal(e) == e.sig \in ScenarioSignals

\* The notifications of the scenario, of all depths, in order.
Scenario(lg) == Sigs(SelectSeq(lg, IsScenarioSignal))

\* The three handlers of the scenario, each run on the session the one
\* before left: down is the machine left by pointerDown at (0,0).
ThenMove(down) ==
  pointerMove(Machine(down.s, StartOnMove), Pointer(1, Far), "move", Element1)

ThenUp(move) ==
  pointerUp(Machine(move.s, NoListener), Pointer(1, Far), "up", Element1)

DraggedAndReleased(down, move, up) ==
  /\ ~down.err /\ ~move.err /\ ~up.err
  /\ Scenario(down.log) \o Scenario(move.log) \o Scenario(up.log)
       = <<"down", "move", "action-start", "action-move", "up", "action-end",
           "stop">>
  /\ ~move.log[1].dup
  /\ ~up.s.interacting
  /\ up.s.prepared.name = NULL
  /\ ~up.s.pointerIsDown
  /\ up.s.pointerIds = <<>>
  /\ up.s.pointers = <<>>
  /\ up.s.downTargets = <<>>
  /\ up.s.downTimes = <<>>

DragFrom(down) == DraggedAndReleased(down, ThenMove(down), ThenUp(ThenMove(down)))

\* C10: a mouse session that is not interacting, driven by pointerDown at
\* (0,0), pointerMove to (5,5) with a move listener that calls start(), then
\* pointerUp, no listener vetoing, fires down, move (duplicate false),
\* action-start, action-move, up, action-end, stop in this order and ends
\* not interacting, with prepared.name null, pointerIsDown false and an
\* empty registry.
C10_MouseDrag ==
  (interaction.pointerType = "mouse" /\ ~interaction.interacting)
  => DragFrom(OnPointerDown(Pointer(1, Origin), "down", NoListener))

\* The session as the scenario leaves it: released at (5,5) after a drag
\* begun at (0,0).
C10_Witness ==
  /\ interaction.pointerType = "mouse"
  /\ ~interaction.interacting
  /\ ~interaction.pointerIsDown
  /\ interaction.pointerIds = <<>>
  /\ interaction.pointers = <<>>
  /\ interaction.pointerWasMoved
  /\ interaction.prepared = [name |-> NULL, axis |-> "xy", edges |-> NULL]
  /\ interaction.curCoords = At(Far)
  /\ interaction.prevCoords = At(Far)
  /\ interaction.startCoords = At(Origin)

(***************************************************************************)
(* A further contact during a gesture.                                     *)
(***************************************************************************)
\* A contact the registry does not hold, away from the others.
NewContact == Pointer(MaxPointers + 1, Far)

\* Machine m is left by the pointerDown of NewContact in the current state,
\* and the action in progress is as it was.
JoinedGesture(m) ==
  /\ ~m.err
  /\ m.s.pointerIds = Append(interaction.pointerIds, NewContact.id)
  /\ m.s.pointers[Len(m.s.pointerIds)] = NewContact
  /\ m.s.interacting
  /\ m.s.prepared = interaction.prepared
  /\ m.s.target = interaction.target
  /\ m.s.element = interaction.element
  /\ m.s.startCoords = interaction.startCoords
  /\ m.s.curCoords = interaction.curCoords
  /\ m.s.prevCoords = interaction.prevCoords
  /\ m.s.pointerWasMoved = interaction.pointerWasMoved
  /\ m.s.downEvent = interaction.downEvent
  /\ m.s.downPointer = interaction.downPointer
  /\ ~Fired(m.log, "action-end")
  /\ ~Fired(m.log, "stop")

\* C11: on a touch session that holds two contacts and is interacting with
\* a gesture, the pointerDown of a new contact appends it to the registry,
\* leaves isInteracting, prepared, target, element, startCoords, curCoords,
\* prevCoords, pointerWasMoved, downEvent and downPointer unchanged and
\* fires neither action-end nor stop.
C11_ContactJoinsGesture ==
  ( /\ interaction.pointerType = "touch"
    /\ interaction.interacting
    /\ interaction.prepared.name = "gesture"
    /\ Len(interaction.pointerIds) >= 2 )
  => JoinedGesture(OnPointerDown(NewContact, "down", NoListener))

\* Two touch contacts are down, a gesture has been started, and a third
\* contact joins.
C11_Witness ==
  /\ interaction.pointerType = "touch"
  /\ interaction.interacting
  /\ interaction.prepared.name = "gesture"
  /\ interaction.pointerIsDown
  /\ interaction.pointerIds = <<1, 2>>
  /\ interaction.downTimes = <<NOW, NOW>>
  /\ Len(OnPointerDown(NewContact, "down", NoListener).s.pointerIds) = 3

(***************************************************************************)
(* Properties of doMove.                                                   *)
(***************************************************************************)
MoveSignals == {"action-move", "target.fire:move"}

\* Every action-move and every move event on the target of the log was fired
\* while the session was interacting.
MovesWhileInteracting(lg) ==
  \A k \in 1..Len(lg) : lg[k].sig \in MoveSignals => lg[k].ia

\* C12: in every operation, external calls of doMove included, every
\* action-move notification and every move event dispatched to the target
\* occurs while isInteracting is true.
C12_MovesOnlyWhileInteracting ==
  /\ \A i \in DownInputs :
       MovesWhileInteracting(OnPointerDown(i[1], i[2], i[3]).log)
  /\ \A i \in MoveInputs :
       MovesWhileInteracting(OnPointerMove(i[1], i[2], i[3]).log)
  /\ \A i \in UpInputs :
       MovesWhileInteracting(OnPointerUp(i[1], i[2], i[3]).log)
  /\ \A i \in StartInputs : MovesWhileInteracting(OnStart(i[1], i[2]).log)
  /\ \A l \in MoveListeners : MovesWhileInteracting(OnDoMove(l).log)
  /\ \A i \in EndInputs : MovesWhileInteracting(OnEnd(i[1], i[2]).log)
  /\ \A l \in StopListeners : MovesWhileInteracting(OnStop(l).log)
  /\ \A l \in EndListeners : MovesWhileInteracting(OnDocumentBlur(l).log)

\* C13: no public operation, with the calls its listeners make, throws: an
\* operation invoked where it does not apply is a silent no-op, and no
\* event is dispatched while the target is null.
C13_NoError ==
  /\ \A i \in DownInputs : ~OnPointerDown(i[1], i[2], i[3]).err
  /\ \A i \in MoveInputs : ~OnPointerMove(i[1], i[2], i[3]).err
  /\ \A i \in UpInputs : ~OnPointerUp(i[1], i[2], i[3]).err
  /\ \A i \in StartInputs : ~OnStart(i[1], i[2]).err
  /\ \A l \in MoveListeners : ~OnDoMove(l).err
  /\ \A i \in EndInputs : ~OnEnd(i[1], i[2]).err
  /\ \A l \in StopListeners : ~OnStop(l).err
  /\ \A l \in EndListeners : ~OnDocumentBlur(l).err

VetoMove == Listener("before-action-move", "veto", Drag)

\* Machine m is left by a doMove that was vetoed in the current state.
MoveWasSuppressed(m) ==
  /\ ~m.err
  /\ Sigs(m.log) = <<"before-action-move">>
  /\ m.s.prevEvent = interaction.prevEvent
  /\ m.s.interacting = interaction.interacting
  /\ m.s.prepared = interaction.prepared
  /\ m.s.target = interaction.target
  /\ m.s.element = interaction.element

\* Machine m is left by a doMove that no listener vetoed.
MoveWasCompleted(m) ==
  /\ ~m.err
  /\ Sigs(m.log) = <<"before-action-move", "action-move", "target.fire:move",
                     "after-action-move">>
  /\ m.s.prevEvent.type = "move"

\* C14: a doMove whose before-action-move listener returns false is
\* suppressed: nothing but before-action-move is fired, nothing is
\* dispatched, and prevEvent, isInteracting, prepared, target and element
\* are unchanged; a doMove that no listener vetoes fires before-action-move,
\* action-move, the move event on the target and after-action-move in this
\* order and records the move event as prevEvent.
C14_DoMove ==
  /\ MoveWasSuppressed(OnDoMove(VetoMove))
  /\ MoveWasCompleted(OnDoMove(NoListener))

(***************************************************************************)
(* stop is the only way out of an action.                                  *)
(***************************************************************************)
\* If the session stops interacting from the current state to machine m,
\* stop was fired on the way.
LeftByStop(m) ==
  (interaction.interacting /\ ~m.s.interacting) => Fired(m.log, "stop")

\* Session s is as stop leaves it.
Cleared(s) ==
  /\ s.target = NULL
  /\ s.element = NULL
  /\ s.prepared.name = NULL
  /\ s.prevEvent = NoEvent
  /\ ~s.interacting

\* C16: whenever isInteracting changes from true to false in an operation,
\* a stop notification was fired in that operation; after every stop()
\* target, element, prepared.name and prevEvent are null and isInteracting
\* is false; end() on a session that is not interacting fires stop and none
\* of before-action-end, action-end, after-action-end.
C16_StopIsTheWayOut ==
  /\ \A i \in DownInputs : LeftByStop(OnPointerDown(i[1], i[2], i[3]))
  /\ \A i \in MoveInputs : LeftByStop(OnPointerMove(i[1], i[2], i[3]))
  /\ \A i \in UpInputs : LeftByStop(OnPointerUp(i[1], i[2], i[3]))
  /\ \A i \in RemoveInputs : LeftByStop(OnRemovePointer(i[1], i[2]))
  /\ \A i \in StartInputs : LeftByStop(OnStart(i[1], i[2]))
  /\ \A l \in MoveListeners : LeftByStop(OnDoMove(l))
  /\ \A i \in EndInputs : LeftByStop(OnEnd(i[1], i[2]))
  /\ \A l \in EndListeners : LeftByStop(OnDocumentBlur(l))
  /\ \A l \in StopListeners :
       /\ LeftByStop(OnStop(l))
       /\ Cleared(OnStop(l).s)
  /\ ~interaction.interacting
     => \A i \in EndInputs : Sigs(OnEnd(i[1], i[2]).log) = <<"stop">>

\* An action with a move event on record, which end() leaves through stop.
C16_Witness ==
  /\ interaction.interacting
  /\ interaction.prevEvent.type = "move"
  /\ Fired(OnEnd(NULL, NoListener).log, "stop")
  /\ Cleared(OnEnd(NULL, NoListener).s)

(***************************************************************************)
(* The order of pointerUp.                                                 *)
(***************************************************************************)
EndSignals ==
  {"before-action-end", "action-end", "target.fire:end", "after-action-end",
   "stop"}

\* Every notification of end in the log was fired with the registry as it
\* is in the current state.
EndSawRegistry(lg) ==
  \A k \in 1..Len(lg) :
    lg[k].sig \in EndSignals => lg[k].ids = interaction.pointerIds

\* Log lg of a pointerUp: up or cancel first, then what end fires, then
\* remove-pointer, the last and the only one after the first that is not
\* fired by end.
UpThenEndThenRemove(lg, event) ==
  /\ lg[1].sig = (IF event = "cancel" THEN "cancel" ELSE "up")
  /\ lg[Len(lg)].sig = "remove-pointer"
  /\ lg[Len(lg)].ids = interaction.pointerIds
  /\ \A k \in 2..(Len(lg) - 1) : lg[k].sig \in EndSignals
  /\ EndSawRegistry(lg)

\* Machine m is left by the pointerUp of a contact that the current state
\* holds at zero-based index k.
Lifted(pointer, event, k, m) ==
  /\ ~m.err
  /\ UpThenEndThenRemove(m.log, event)
  /\ ~m.s.pointerIsDown
  /\ m.s.pointerIds = Splice(interaction.pointerIds, k)
  /\ interaction.pointerType = "touch"
     => IndexOf(m.s.pointerIds, pointer.id) = -1

\* C17: pointerUp fires up or cancel first, then end runs while the lifted
\* contact is still in the registry, and only then remove-pointer is fired
\* and the contact removed; afterwards pointerIsDown is false and the lifted
\* contact is absent, also when the end was vetoed.
C17_UpEndsThenRemoves ==
  \A i \in UpInputs :
    ( /\ getPointerIndex(interaction, i[1]) # -1
      /\ getPointerIndex(interaction, i[1]) < Len(interaction.pointerIds) )
    => Lifted(i[1], i[2], getPointerIndex(interaction, i[1]),
              OnPointerUp(i[1], i[2], i[3]))

\* The second of two touch contacts is lifted during an action and the end
\* is vetoed: the contact is removed all the same.
C17_Witness ==
  /\ interaction.pointerType = "touch"
  /\ interaction.interacting
  /\ interaction.pointerIds = <<1, 2>>
  /\ Sigs(OnPointerUp(Pointer(2, Origin), "up", VetoEnd).log)
       = <<"up", "before-action-end", "remove-pointer">>
  /\ OnPointerUp(Pointer(2, Origin), "up", VetoEnd).s.pointerIds = <<1>>
  /\ OnPointerUp(Pointer(2, Origin), "up", VetoEnd).s.interacting

(***************************************************************************)
(* The previous snapshot follows only confirmed movement.                  *)
(***************************************************************************)
\* Session s is left by a pointerMove in the current state.
PrevRolledOnlyWhenMoved(s) ==
  /\ s.startCoords = interaction.startCoords
  /\ IF ~SameCoords(s.curCoords, interaction.prevCoords) /\ s.pointerWasMoved
     THEN s.prevCoords = s.curCoords
     ELSE s.prevCoords = interaction.prevCoords

\* C18: pointerMove copies curCoords into prevCoords only when the sample is
\* not a duplicate and pointerWasMoved is true at the end of the move; a
\* pointerMove that leaves pointerWasMoved false changes neither prevCoords
\* nor startCoords, so while pointerWasMoved is false prevCoords equals
\* startCoords.
C18_PrevFollowsMovement ==
  /\ \A i \in MoveInputs :
       PrevRolledOnlyWhenMoved(OnPointerMove(i[1], i[2], i[3]).s)
  /\ ~interaction.pointerWasMoved
     => interaction.prevCoords = interaction.startCoords

\* A mouse held down at the origin and seen within the tolerance: the
\* current snapshot has left the previous one, which is still the start.
C18_Witness ==
  /\ interaction.pointerType = "mouse"
  /\ interaction.pointerIsDown
  /\ ~interaction.pointerWasMoved
  /\ interaction.curCoords = At(Near)
  /\ interaction.prevCoords = At(Origin)
  /\ OnPointerMove(Pointer(1, Far), "move", NoListener).s.prevCoords = At(Far)

(***************************************************************************)
(* end called while an end is in progress.                                 *)
(***************************************************************************)
\* A listener of action-end that calls end().
EndAgain == Listener("action-end", "end", Drag)

RECURSIVE Count(_, _)
\* The number of entries of the log that fire sig.
Count(lg, sig) ==
  IF lg = <<>> THEN 0
  ELSE (IF Head(lg).sig = sig THEN 1 ELSE 0) + Count(Tail(lg), sig)

\* In log lg, action-end and stop are fired at most once each, and no
\* action-end is fired from inside a listener.
EndedOnce(lg) ==
  /\ Count(lg, "action-end") <= 1
  /\ Count(lg, "stop") <= 1
  /\ \A k \in 1..Len(lg) : lg[k].sig = "action-end" => lg[k].depth = 0

\* C19: an end() called by a listener while an end() of the session is in
\* progress fires neither action-end nor stop a second time, so that one
\* action is ended by at most one action-end and one stop; and the ending
\* flag is false whenever no end() is in progress.
C19_EndNotReentered ==
  /\ ~interaction.ending
  /\ interaction.interacting
     => \A e \in {NULL, "up"} : EndedOnce(OnEnd(e, EndAgain).log)


(***************************************************************************)
(* The dispatcher.                                                         *)
(***************************************************************************)
\* What the dispatch of an event does from the current state.
DispatchOf(event, choices) ==
  doOnInteractions(scope, browser, clock, event, choices)

\* Some session that is not a mouse session has its pointer down.
NonMouseDown ==
  \E k \in 1..Len(scope.interactions) :
    /\ scope.interactions[k].s.pointerType \in {"touch", "pen"}
    /\ scope.interactions[k].s.pointerIsDown

SinceTouch == clock - scope.prevTouchTime

\* Nothing was called, nothing was created, nothing has changed.
Filtered(d) ==
  /\ d.log = <<>>
  /\ d.matches = <<>>
  /\ d.interactions = scope.interactions
  /\ d.prevTouchTime = scope.prevTouchTime

\* C15: without PointerEvent support, a mouse event that arrives while a
\* session that is not a mouse session has its pointer down, or less than
\* 500 ms after the last touch event, or with timeStamp 0, is filtered: no
\* finder consultation, no session method called, no session created and
\* no session changed.
C15_MouseFiltered ==
  \A event \in MouseEvents(clock) :
    \A choices \in ChoicesFor(scope, event) :
      ( /\ ~browser.supportsPointerEvent
        /\ \/ NonMouseDown
           \/ SinceTouch < 500
           \/ event.timeStamp = 0 )
        => Filtered(DispatchOf(event, choices))

\* A touch contact is down, the last touch event is 500 ms old, and a mouse
\* event with a timeStamp is filtered.
C15_Witness ==
  /\ ~browser.supportsPointerEvent
  /\ NonMouseDown
  /\ SinceTouch >= 500
  /\ Filtered(DispatchOf(Event("mousedown", "mouse", clock,
                                  <<MousePointer>>),
                            <<[found |-> 0, designated |-> 0]>>))

ResolutionOps == {"finder.search", "find", "new"}

IsResolution(entry) == entry.op \in ResolutionOps

RECURSIVE Resolutions(_, _)
\* What resolving the contacts must log, with n sessions to begin with:
\* the finder, then find, then a session created if none is designated.
Resolutions(choices, n) ==
  IF choices = <<>> THEN <<>>
  ELSE <<[op |-> "finder.search", k |-> Head(choices).found],
         [op |-> "find", k |-> Head(choices).designated]>>
       \o (IF Head(choices).designated = 0
           THEN <<[op |-> "new", k |-> n + 1]>> ELSE <<>>)
       \o Resolutions(Tail(choices),
                      IF Head(choices).designated = 0 THEN n + 1 ELSE n)

Undesignated(choices) ==
  Cardinality({k \in 1..Len(choices) : choices[k].designated = 0})

\* The sessions there were are still there, in their places.
PoolKept(d) ==
  /\ Len(d.interactions) >= Len(scope.interactions)
  /\ \A k \in 1..Len(scope.interactions) :
       d.interactions[k].id = scope.interactions[k].id

\* The sessions created are at the end, in the order of their creation.
PoolGrownBy(d, n, pointerType) ==
  /\ Len(d.interactions) = Len(scope.interactions) + n
  /\ \A k \in (Len(scope.interactions) + 1)..Len(d.interactions) :
       /\ d.interactions[k].id = k
       /\ d.interactions[k].s.pointerType = pointerType

Resolved(d, event, choices) ==
  /\ PoolKept(d)
  /\ \/ Filtered(d)
     \/ /\ SelectSeq(d.log, IsResolution)
             = Resolutions(choices, Len(scope.interactions))
        /\ PoolGrownBy(d, Undesignated(choices), event.pointerType)
        /\ Len(d.matches) = Len(event.pointers)

\* C20: the sessions of scope.interactions are never removed or reordered.
\* For each contact of an event that is not filtered the finder is
\* consulted, then find is fired, and then a session is created and
\* appended exactly when none is designated; the blur listener creates and
\* removes none.
C20_PoolOnlyGrows ==
  /\ \A k \in 1..Len(scope.interactions) : scope.interactions[k].id = k
  /\ \A event \in EventsOf(browser, clock) :
       \A choices \in ChoicesFor(scope, event) :
         Resolved(DispatchOf(event, choices), event, choices)
  /\ PoolKept(BlurFrom(Dispatching(scope), 1))
  /\ PoolGrownBy(BlurFrom(Dispatching(scope), 1), 0, "none")

TwoContacts ==
  Event("touchstart", "touch", clock,
        <<Pointer(1, Origin), Pointer(2, Origin)>>)

\* With one touch session in scope.interactions, the finder returns it for
\* the first contact and a listener of find clears it: a second session is
\* created, and then designated for the second contact.
ClearedThenKept ==
  << [found |-> 1, designated |-> 0], [found |-> 2, designated |-> 2] >>

Ops(lg) == [k \in 1..Len(lg) |-> lg[k].op]

C20_Witness ==
  /\ browser.supportsTouch /\ ~browser.supportsPointerEvent
  /\ Len(scope.interactions) = 1
  /\ scope.interactions[1].s.pointerType = "touch"
  /\ ClearedThenKept \in ChoicesFor(scope, TwoContacts)
  /\ Len(DispatchOf(TwoContacts, ClearedThenKept).interactions) = 2
  /\ Ops(DispatchOf(TwoContacts, ClearedThenKept).log)
       = << "finder.search", "find", "new", "finder.search", "find",
            "pointerDown", "pointerDown" >>
====
